---- MODULE Spec2Model ----
(***************************************************************************)
(* Model of hooks/tk-multi-publish2/create_version.py: the "Create         *)
(* Version" publish plugin.  One item flows through publish() and          *)
(* finalize(); the Shotgun record store, the Backburner job queue and the  *)
(* transcoder are the collaborators the plugin writes to.                  *)
(***************************************************************************)
EXTENDS Integers, Sequences, FiniteSets, TLC

VARIABLES
    properties,   \* item.properties: the item's property bag (key -> value)
    records,      \* the Shotgun record store: Version records created so far
    jobs,         \* the Backburner job queue: every job submitted so far
    history       \* the calls the publisher made on the plugin, with outcome

vars == <<properties, records, jobs, history>>

\* How many times the publisher may call publish() / finalize() on the item.
MaxPublish == 1
MaxFinalize == 2

----------------------------------------------------------------------------
(* Python values held in assetInfo and in the Version data.                *)

PyNone == [kind |-> "None", num |-> 0, text |-> ""]
PyInt(n) == [kind |-> "int", num |-> n, text |-> ""]
\* A float, kept in thousandths: PyFloat(1780) is 1.78
PyFloat(m) == [kind |-> "float", num |-> m, text |-> ""]
PyStr(s) == [kind |-> "str", num |-> 0, text |-> s]

\* Python truthiness: `if frame_rate:`
Truthy(v) ==
    CASE v.kind = "None" -> FALSE
      [] v.kind = "str" -> v.text # ""
      [] OTHER -> v.num # 0

\* The string literals float() parses, with their value in thousandths.
FloatLiterals == ("24" :> 24000) @@ ("1.78" :> 1780)

\* float(v) raises TypeError on None and ValueError on a non-numeric string.
CanFloat(v) ==
    CASE v.kind = "None" -> FALSE
      [] v.kind = "str" -> v.text \in DOMAIN FloatLiterals
      [] OTHER -> TRUE

\* float(v), where it does not raise.
Float(v) ==
    CASE v.kind = "int" -> PyFloat(v.num * 1000)
      [] v.kind = "str" -> PyFloat(FloatLiterals[v.text])
      [] OTHER -> v

\* dict.get(key, default)
Get(d, key, default) == IF key \in DOMAIN d THEN d[key] ELSE default

\* d[key] = value
Put(d, key, value) == (key :> value) @@ d

\* The empty dict.
EmptyDict == [k \in {} |-> PyNone]

----------------------------------------------------------------------------
(* Paths: a directory and a file name split at its dots.                   *)

PathNone == [dir |-> "None", name |-> <<>>]

\* The bracketed range tokens "[<int>-<int>]" and what is inside the brackets.
RangeTokens == ("[1001-1050]" :> "1001-1050")

\* re.search(r"(\[[0-9]+-[0-9]+\])\.", file_path): the first range token that
\* a dot follows, scanning left to right; 0 when there is none.
RangeMatch(file_path) ==
    LET hits == {i \in 1..(Len(file_path.name) - 1) :
                    file_path.name[i] \in DOMAIN RangeTokens}
    IN  IF hits = {} THEN 0 ELSE CHOOSE i \in hits : \A j \in hits : i <= j

\* os.path.split(path)[1].split(".")[0] + ".mov"
QuicktimeName(path) == <<path.name[1], "mov">>

\* os.path.join(os.path.dirname(path), quicktime_name)
QuicktimePath(path) == [dir |-> path.dir, name |-> QuicktimeName(path)]

----------------------------------------------------------------------------
(* The Version metadata: publish(), lines 145-182.                          *)

\* item.name, item.description and item.context of the one item.
ItemName == PyStr("shot010_comp")
ItemDescription == PyStr("comp render")
ItemContext == [project |-> PyStr("Project"), entity |-> PyStr("Shot"),
                task |-> PyStr("Task")]

\* path = item.properties.get("path", None)
ItemPath(props) == Get(props, "path", PathNone)

\* asset_info = item.properties.get("assetInfo", {})
AssetInfo(props) == Get(props, "assetInfo", EmptyDict)

\* file_path = item.properties.get("file_path", path)
FilePath(props) == Get(props, "file_path", ItemPath(props))

\* ver_data = dict(...); ver_data["sg_department"] = "Flame"
BaseVersionData(props) ==
    [project |-> ItemContext.project,
     code |-> ItemName,
     description |-> ItemDescription,
     entity |-> ItemContext.entity,
     sg_task |-> ItemContext.task,
     sg_path_to_frames |-> ItemPath(props),
     sg_department |-> PyStr("Flame")]

\* `if frame_rate:`
FrameRateGuard(asset_info) == Truthy(Get(asset_info, "fps", PyNone))

\* `if asset_info:`  (the guard of the two aspect-ratio fields)
AspectRatioGuard(asset_info) == DOMAIN asset_info # {}

\* `if "sourceIn" in asset_info and "sourceOut" in asset_info:`
FramesGuard(asset_info) ==
    "sourceIn" \in DOMAIN asset_info /\ "sourceOut" \in DOMAIN asset_info

\* LastFrame with the off-by-one of taking sourceOut as the last frame.
LastFrameInclusive(source_out) == PyInt(source_out.num)

\* ver_data["sg_last_frame"] = asset_info["sourceOut"] - 1
LastFrame(source_out) == PyInt(source_out.num - 1)

\* ver_data["frame_count"] = int(sg_last_frame) - int(sg_first_frame) + 1
FrameCount(first_frame, last_frame) == PyInt(last_frame.num - first_frame.num + 1)

\* ver_data["sg_uploaded_movie_frame_rate"] = float(frame_rate)
WithFrameRate(ver_data, asset_info) ==
    IF FrameRateGuard(asset_info)
    THEN Put(ver_data, "sg_uploaded_movie_frame_rate", Float(asset_info["fps"]))
    ELSE ver_data

\* ver_data["sg_frames_aspect_ratio"] = ver_data["sg_movie_aspect_ratio"]
\*     = float(aspect_ratio)
WithAspectRatio(ver_data, asset_info) ==
    IF AspectRatioGuard(asset_info)
    THEN LET aspect_ratio == Float(Get(asset_info, "aspectRatio", PyNone))
         IN  Put(Put(ver_data, "sg_frames_aspect_ratio", aspect_ratio),
                 "sg_movie_aspect_ratio", aspect_ratio)
    ELSE ver_data

\* ver_data["frame_range"] = re_match.group(1)[1:-1]
WithFrameRange(ver_data, file_path) ==
    LET i == RangeMatch(file_path)
    IN  IF i # 0
        THEN Put(ver_data, "frame_range", PyStr(RangeTokens[file_path.name[i]]))
        ELSE ver_data

\* sg_first_frame, sg_last_frame and frame_count
WithFrames(ver_data, asset_info) ==
    IF FramesGuard(asset_info)
    THEN LET first_frame == asset_info["sourceIn"]
             last_frame == LastFrame(asset_info["sourceOut"])
         IN  Put(Put(Put(ver_data, "sg_first_frame", first_frame),
                     "sg_last_frame", last_frame),
                 "frame_count", FrameCount(first_frame, last_frame))
    ELSE ver_data

\* Where building the Version data raises, "none" when it does not: float()
\* of the frame rate, float() of the aspect ratio, re.search() of a None path.
BuildRaises(props) ==
    LET asset_info == AssetInfo(props)
    IN  IF FrameRateGuard(asset_info) /\ ~CanFloat(asset_info["fps"])
        THEN "float(fps)"
        ELSE IF AspectRatioGuard(asset_info)
                  /\ ~CanFloat(Get(asset_info, "aspectRatio", PyNone))
        THEN "float(aspectRatio)"
        ELSE IF FilePath(props) = PathNone
        THEN "re.search"
        ELSE "none"

\* The Version data publish() has built when it reaches sg.create().
BuildVersionData(props) ==
    LET asset_info == AssetInfo(props)
    IN  WithFrames(
            WithFrameRange(
                WithAspectRatio(
                    WithFrameRate(BaseVersionData(props), asset_info),
                    asset_info),
                FilePath(props)),
            asset_info)

----------------------------------------------------------------------------
(* The collaborators: the Shotgun client, the job queue, the transcoder.   *)

\* Python None where a job id is expected; job ids start at 1.
NoJob == 0

\* What the collaborators decide during one call: which external call raises
\* ("none": no call does), whether the transcoder writes to its temporary
\* folder instead of the requested destination, and the temporary files it
\* reports for deletion.
Faults == {"none", "sg.create", "transcode", "create_local_backburner_job"}
FilesToDelete == {<<>>, <<"tmp_preset.xml">>}
Externals == [fault : Faults, to_tmp : BOOLEAN, files : FilesToDelete]

\* self.sg.create("Version", ver_data): the record the store keeps, and the
\* reference it returns.
VersionRef(store) == [type |-> "Version", id |-> Len(store) + 1]
SgCreate(store, ver_data) ==
    Append(store, [type |-> "Version", id |-> Len(store) + 1, data |-> ver_data])

\* engine.create_local_backburner_job(...): the job joins the queue and its id
\* is returned.
NewJobId(queue) == Len(queue) + 1
CreateLocalBackburnerJob(queue, dependencies, method_name, args) ==
    Append(queue, [id |-> NewJobId(queue), method_name |-> method_name,
                   dependencies |-> dependencies, args |-> args,
                   status |-> "queued"])

\* engine.transcoder.transcode(...): submits the transcode job and returns
\* (dst_path, job_id, files_to_delete); the destination it returns is the
\* requested one or one in its temporary folder.
TranscodeDst(dst_path, ext) ==
    IF ext.to_tmp THEN [dir |-> "backburner_tmp", name |-> dst_path.name]
    ELSE dst_path
Transcode(queue, src_path, dst_path, display_name, asset_info, dependencies, ext) ==
    [jobs |-> CreateLocalBackburnerJob(queue, dependencies, "transcode",
                  [src_path |-> src_path, dst_path |-> dst_path,
                   extension |-> dst_path.name[Len(dst_path.name)],
                   display_name |-> display_name,
                   job_context |-> "Create Shotgun Local Movie",
                   asset_info |-> asset_info,
                   resolved_dst_path |-> TranscodeDst(dst_path, ext),
                   files_to_delete |-> ext.files]),
     dst_path |-> TranscodeDst(dst_path, ext),
     job_id |-> NewJobId(queue),
     files_to_delete |-> ext.files]

----------------------------------------------------------------------------
(* generate_quicktime(), lines 283-336.                                     *)

\* dependencies=job_id  (of the update_path_to_movie job)
UpdateJobDependencies(job_id) == job_id

\* QuicktimeJob with the temporary files forgotten.
QuicktimeJobWithoutCleanup(display_name, job_id, target_entities, dst_path, files_to_delete) ==
    [display_name |-> display_name,
     dependencies |-> job_id,
     target_entities |-> target_entities,
     path |-> dst_path,
     files_to_delete |-> <<>>]

\* quicktime_job = {...}
QuicktimeJob(display_name, job_id, target_entities, dst_path, files_to_delete) ==
    [display_name |-> display_name,
     dependencies |-> job_id,
     target_entities |-> target_entities,
     path |-> dst_path,
     files_to_delete |-> files_to_delete]

\* GenerateQuicktime that withdraws the transcode job when the submission of
\* the update_path_to_movie job fails.
GenerateQuicktimeWithdrawing(queue, src_path, dst_path, display_name, target_entities, asset_info, dependencies, ext) ==
    LET t == Transcode(queue, src_path, dst_path, display_name, asset_info,
                       dependencies, ext)
    IN  IF ext.fault = "transcode"
        THEN [exc |-> "transcode", jobs |-> queue, quicktime_job |-> EmptyDict]
        ELSE IF ext.fault = "create_local_backburner_job"
        THEN [exc |-> "create_local_backburner_job", jobs |-> queue,
              quicktime_job |-> EmptyDict]
        ELSE [exc |-> "none",
              jobs |-> CreateLocalBackburnerJob(t.jobs, t.job_id,
                           "update_path_to_movie",
                           [targets |-> target_entities, path |-> t.dst_path,
                            files_to_delete |-> t.files_to_delete]),
              quicktime_job |-> QuicktimeJob(display_name, t.job_id,
                                    target_entities, t.dst_path,
                                    t.files_to_delete)]

\* The queue, the descriptor and the exception generate_quicktime() ends with.
GenerateQuicktime(queue, src_path, dst_path, display_name, target_entities, asset_info, dependencies, ext) ==
    LET t == Transcode(queue, src_path, dst_path, display_name, asset_info,
                       dependencies, ext)
        desc == QuicktimeJob(display_name, t.job_id, target_entities,
                             t.dst_path, t.files_to_delete)
    IN  IF ext.fault = "transcode"
        THEN [exc |-> "transcode", jobs |-> queue, quicktime_job |-> EmptyDict]
        ELSE IF ext.fault = "create_local_backburner_job"
        THEN [exc |-> "create_local_backburner_job", jobs |-> t.jobs,
              quicktime_job |-> EmptyDict]
        ELSE [exc |-> "none",
              jobs |-> CreateLocalBackburnerJob(t.jobs,
                           UpdateJobDependencies(t.job_id),
                           "update_path_to_movie",
                           [targets |-> target_entities, path |-> t.dst_path,
                            files_to_delete |-> t.files_to_delete]),
              quicktime_job |-> desc]

----------------------------------------------------------------------------
(* publish(), lines 136-215.                                                *)

\* PublishDependencies with the predecessor job dropped.
PublishDependenciesDropped(props) == NoJob

\* dependencies = item.properties.get("backgroundJobId")
PublishDependencies(props) == Get(props, "backgroundJobId", NoJob)

\* item.properties["quicktime_name"], ["quicktime_path"], ["quicktime_job"]
Stash(props, quicktime_name, quicktime_path, quicktime_job) ==
    Put(Put(Put(props, "quicktime_name", quicktime_name),
            "quicktime_path", quicktime_path),
        "quicktime_job", quicktime_job)

\* A call in progress: the exception raised so far ("none": none), the
\* property bag, the record store and the job queue as the call has left
\* them, and the locals ver_data and version.
NoVersion == [type |-> "None", id |-> 0]
Enter(props, store, queue) ==
    [exc |-> "none", props |-> props, records |-> store, jobs |-> queue,
     ver_data |-> EmptyDict, version |-> NoVersion]

\* Lines 145-182: build the Version metadata.
PublishBuild(s) ==
    IF s.exc # "none" THEN s
    ELSE IF BuildRaises(s.props) # "none"
    THEN [s EXCEPT !.exc = BuildRaises(s.props)]
    ELSE [s EXCEPT !.ver_data = BuildVersionData(s.props)]

\* PublishCreate run whether or not building the Version data raised, as if
\* the record were created before the conversions.
PublishCreateFirst(s, ext) ==
    IF ext.fault = "sg.create" /\ s.exc = "none"
    THEN [s EXCEPT !.exc = "sg.create"]
    ELSE [s EXCEPT !.version = VersionRef(s.records),
                   !.records = SgCreate(s.records, s.ver_data),
                   !.props = Put(s.props, "Version", VersionRef(s.records))]

\* Lines 184-188: create the Version and keep its reference on the item.
PublishCreate(s, ext) ==
    IF s.exc # "none" THEN s
    ELSE IF ext.fault = "sg.create" THEN [s EXCEPT !.exc = "sg.create"]
    ELSE [s EXCEPT !.version = VersionRef(s.records),
                   !.records = SgCreate(s.records, s.ver_data),
                   !.props = Put(s.props, "Version", VersionRef(s.records))]

\* Lines 190-215: submit the quicktime jobs and stash the descriptor.
PublishGenerate(s, ext) ==
    LET path == ItemPath(s.props)
        g == GenerateQuicktime(s.jobs, FilePath(s.props), QuicktimePath(path),
                               QuicktimeName(path), <<s.version>>,
                               AssetInfo(s.props), PublishDependencies(s.props),
                               ext)
    IN  IF s.exc # "none" THEN s
        ELSE IF path = PathNone THEN [s EXCEPT !.exc = "os.path.split"]
        ELSE IF g.exc # "none" THEN [s EXCEPT !.exc = g.exc, !.jobs = g.jobs]
        ELSE [s EXCEPT !.jobs = g.jobs,
                       !.props = Stash(s.props, QuicktimeName(path),
                                       QuicktimePath(path), g.quicktime_job)]

\* The call as a whole.
PublishCall(props, store, queue, ext) ==
    PublishGenerate(PublishCreate(PublishBuild(Enter(props, store, queue)), ext),
                    ext)

----------------------------------------------------------------------------
(* finalize() and _upload_quicktime_job(), lines 220-278.                   *)

\* quicktime_job = item.properties.get("quicktime_job")
StashedJob(props) == Get(props, "quicktime_job", EmptyDict)

\* FinalizeGuard with the test negated.
FinalizeGuardNegated(props) == DOMAIN StashedJob(props) = {}

\* `if quicktime_job:`
FinalizeGuard(props) == DOMAIN StashedJob(props) # {}

\* UploadJobDependencies with the dependency on the transcode job lost.
UploadJobDependenciesLost(quicktime_job) == NoJob

\* dependencies=quicktime_job.get("dependencies")
UploadJobDependencies(quicktime_job) == Get(quicktime_job, "dependencies", NoJob)

\* args={...} of the copy_from_temp_and_upload_to_shotgun job
UploadJobArgs(quicktime_job) ==
    [targets |-> Get(quicktime_job, "target_entities", <<>>),
     path |-> Get(quicktime_job, "path", PathNone),
     field_name |-> "sg_uploaded_movie",
     display_name |-> Get(quicktime_job, "display_name", <<>>),
     files_to_delete |-> Get(quicktime_job, "files_to_delete", <<>>)]

\* UploadQuicktimeJob that submits the upload job twice.
UploadQuicktimeJobTwice(queue, quicktime_job) ==
    LET once == CreateLocalBackburnerJob(queue,
                    UploadJobDependencies(quicktime_job),
                    "copy_from_temp_and_upload_to_shotgun",
                    UploadJobArgs(quicktime_job))
    IN  CreateLocalBackburnerJob(once, UploadJobDependencies(quicktime_job),
                                 "copy_from_temp_and_upload_to_shotgun",
                                 UploadJobArgs(quicktime_job))

\* self._upload_quicktime_job(quicktime_job): the queue it leaves
UploadQuicktimeJob(queue, quicktime_job) ==
    CreateLocalBackburnerJob(queue, UploadJobDependencies(quicktime_job),
                             "copy_from_temp_and_upload_to_shotgun",
                             UploadJobArgs(quicktime_job))

\* The call as a whole: the queue it leaves, what it returns (NoJob: nothing)
\* and the exception it ends with.
FinalizeCall(props, queue, ext) ==
    IF ~FinalizeGuard(props)
    THEN [exc |-> "none", jobs |-> queue, ret |-> NoJob]
    ELSE IF ext.fault = "create_local_backburner_job"
    THEN [exc |-> "create_local_backburner_job", jobs |-> queue, ret |-> NoJob]
    ELSE [exc |-> "none", jobs |-> UploadQuicktimeJob(queue, StashedJob(props)),
          ret |-> Len(UploadQuicktimeJob(queue, StashedJob(props)))]

----------------------------------------------------------------------------
(* The state machine.                                                      *)

Calls(op) == Cardinality({i \in 1..Len(history) : history[i].op = op})

\* The publisher calls publish(settings, item).
Publish ==
    /\ Calls("publish") < MaxPublish
    /\ \E ext \in Externals :
         LET r == PublishCall(properties, records, jobs, ext)
         IN  /\ properties' = r.props
             /\ records' = r.records
             /\ jobs' = r.jobs
             /\ history' = Append(history,
                    [op |-> "publish", exc |-> r.exc, ret |-> NoJob])

\* The publisher calls finalize(settings, item).
Finalize ==
    /\ Calls("finalize") < MaxFinalize
    /\ \E ext \in {e \in Externals :
                     e.fault \in {"none", "create_local_backburner_job"}} :
         LET r == FinalizeCall(properties, jobs, ext)
         IN  /\ jobs' = r.jobs
             /\ history' = Append(history,
                    [op |-> "finalize", exc |-> r.exc, ret |-> r.ret])
             /\ UNCHANGED <<properties, records>>

\* The values the collector may have put in the item's asset info.
FpsValues == {PyInt(0), PyFloat(24000), PyStr("24"), PyStr("abc")}
AspectRatioValues == {PyFloat(1780), PyStr("abc")}
FrameIndices == {PyInt(1001), PyInt(1051)}
AssetInfoKeys ==
    ("fps" :> FpsValues) @@ ("aspectRatio" :> AspectRatioValues)
    @@ ("sourceIn" :> FrameIndices) @@ ("sourceOut" :> FrameIndices)
AssetInfos ==
    UNION {{d \in [keys -> UNION {AssetInfoKeys[k] : k \in keys}] :
                \A k \in keys : d[k] \in AssetInfoKeys[k]} :
               keys \in SUBSET DOMAIN AssetInfoKeys}

\* The paths the collector may have put in the property bag: "path" the
\* Shotgun way (file.%04d.ext), "file_path" the Flame way (file.[##-##].ext).
ShotgunPath == [dir |-> "/renders", name |-> <<"shot010", "%04d", "exr">>]
FlamePath == [dir |-> "/renders", name |-> <<"shot010", "[1001-1050]", "exr">>]

\* The Flame export job the item's media comes from, when it is exported in
\* background: "backgroundJobId" names it.
BackgroundJob ==
    [id |-> 1, method_name |-> "export", dependencies |-> NoJob,
     args |-> EmptyDict, status |-> "queued"]

\* The property bags the collector may hand over, and the queue with them.
ItemProperties ==
    {path @@ file_path @@ asset_info @@ background :
        path \in {EmptyDict, "path" :> ShotgunPath},
        file_path \in {EmptyDict, "file_path" :> FlamePath},
        asset_info \in {EmptyDict} \cup {"assetInfo" :> a : a \in AssetInfos},
        background \in {EmptyDict, "backgroundJobId" :> BackgroundJob.id}}

Init ==
    /\ properties \in ItemProperties
    /\ records = <<>>
    /\ jobs = IF "backgroundJobId" \in DOMAIN properties
              THEN <<BackgroundJob>> ELSE <<>>
    /\ history = <<>>

Next == Publish \/ Finalize

Spec == Init /\ [][Next]_vars

----------------------------------------------------------------------------
(* The job queue at work: a job starts once every job it depends on has    *)
(* ended in success.                                                       *)

Dependencies(job) == IF job.dependencies = NoJob THEN {} ELSE {job.dependencies}

JobStart(j) ==
    /\ jobs[j].status = "queued"
    /\ \A d \in Dependencies(jobs[j]) : jobs[d].status = "done"
    /\ jobs' = [jobs EXCEPT ![j].status = "running"]
    /\ UNCHANGED <<properties, records, history>>

JobEnd(j, status) ==
    /\ jobs[j].status = "running"
    /\ jobs' = [jobs EXCEPT ![j].status = status]
    /\ UNCHANGED <<properties, records, history>>

RunQueue ==
    \E j \in 1..Len(jobs) :
        \/ JobStart(j)
        \/ JobEnd(j, "done")
        \/ JobEnd(j, "failed")

\* The item the queue is followed for: one whose Version data builds, with
\* or without a background export job before it.
QueueAssetInfo ==
    ("fps" :> PyFloat(24000)) @@ ("aspectRatio" :> PyFloat(1780))
      @@ ("sourceIn" :> PyInt(1001)) @@ ("sourceOut" :> PyInt(1051))

InitQueue ==
    /\ Init
    /\ "path" \in DOMAIN properties
    /\ "file_path" \in DOMAIN properties
    /\ "assetInfo" \in DOMAIN properties
    /\ properties["assetInfo"] = QueueAssetInfo

NextQueue == Publish \/ Finalize \/ RunQueue

SpecQueue == InitQueue /\ [][NextQueue]_vars

----------------------------------------------------------------------------
(* What the claims speak of.                                               *)

TranscodeJobs == {j \in 1..Len(jobs) : jobs[j].method_name = "transcode"}
UpdateJobs == {j \in 1..Len(jobs) : jobs[j].method_name = "update_path_to_movie"}
UploadJobs ==
    {j \in 1..Len(jobs) :
        jobs[j].method_name = "copy_from_temp_and_upload_to_shotgun"}

\* The step just taken is a call of `op`; LastCall' is that call.
LastCall == history[Len(history)]
Called(op) ==
    /\ Len(history') = Len(history) + 1
    /\ history'[Len(history')].op = op

\* The jobs of one chain are those submitted for the same Version record.
SameChain(j, k) == jobs[j].args.targets = jobs[k].args.targets

\* The item carries no job-chain descriptor: the key is absent or falsy.
NoDescriptor ==
    \/ "quicktime_job" \notin DOMAIN properties
    \/ DOMAIN properties["quicktime_job"] = {}

\* C1: the three jobs form a strictly linear chain: job 2 declares job 1 as
\* its dependency and job 3 declares job 2, so job 3 does not start before
\* job 2 has ended in success.
C1_LinearChain ==
    \A j3 \in UploadJobs :
        \E j2 \in UpdateJobs :
            /\ SameChain(j2, j3)
            /\ jobs[j2].dependencies \in TranscodeJobs
            /\ jobs[j3].dependencies = j2
            /\ jobs[j3].status # "queued" => jobs[j2].status = "done"

\* C2: one publish() followed by one finalize(), both completing without
\* error, make exactly 3 job submissions (one transcode job and two
\* create_local_backburner_job calls) and exactly 1 Version record.
PublishThenFinalize ==
    /\ Len(history) = 2
    /\ history[1].op = "publish" /\ history[1].exc = "none"
    /\ history[2].op = "finalize" /\ history[2].exc = "none"
C2_ThreeJobsOneRecord ==
    PublishThenFinalize =>
        /\ Len(records) = 1
        /\ Cardinality(TranscodeJobs) = 1
        /\ Cardinality(UpdateJobs) = 1
        /\ Cardinality(UploadJobs) = 1
        /\ Len(jobs) = 3 + (IF "backgroundJobId" \in DOMAIN properties
                            THEN 1 ELSE 0)
        /\ history[2].ret \in UploadJobs
C2_Witness == PublishThenFinalize /\ Len(jobs) = 4

\* C3: where the item holds no job-chain descriptor, finalize() submits no
\* job, returns nothing and leaves the property bag, the record store and
\* the job queue unchanged.
C3_FinalizeNoop ==
    [][(Called("finalize") /\ NoDescriptor) =>
          /\ jobs' = jobs
          /\ records' = records
          /\ properties' = properties
          /\ LastCall'.ret = NoJob
          /\ LastCall'.exc = "none"]_vars
C3_Witness ==
    /\ Len(history) = 2
    /\ history[1].op = "publish" /\ history[1].exc = "transcode"
    /\ LastCall.op = "finalize" /\ LastCall.ret = NoJob
    /\ NoDescriptor
    /\ Len(records) = 1

\* C4, as claimed: a descriptor gives rise to at most one job 3, so a second
\* finalize() submits no further job for the same descriptor.
C4_ConsumedOnce ==
    \A j \in UploadJobs : \A k \in UploadJobs :
        jobs[j].dependencies = jobs[k].dependencies => j = k

\* C4, amended: finalize() does not consume the descriptor.  Every finalize()
\* that completes while a descriptor is stashed leaves the descriptor on the
\* item and submits one job 3 for it, so the number of job-3 submissions for
\* a descriptor is the number of such finalize() calls.
FinalizeCalls ==
    {i \in 1..Len(history) :
        history[i].op = "finalize" /\ history[i].ret # NoJob}
C4_OneJobPerFinalize ==
    [][(Called("finalize") /\ ~NoDescriptor /\ LastCall'.exc = "none") =>
          /\ properties' = properties
          /\ Len(jobs') = Len(jobs) + 1
          /\ \A j \in 1..Len(jobs) : jobs'[j] = jobs[j]
          /\ jobs'[Len(jobs')].method_name
               = "copy_from_temp_and_upload_to_shotgun"
          /\ jobs'[Len(jobs')].dependencies
               = properties["quicktime_job"].dependencies
          /\ LastCall'.ret = Len(jobs')
          /\ Cardinality(UploadJobs') = Cardinality(FinalizeCalls')]_vars
C4_Witness ==
    \E j \in UploadJobs : \E k \in UploadJobs :
        /\ j # k
        /\ jobs[j].dependencies = jobs[k].dependencies
        /\ jobs[j].dependencies = properties["quicktime_job"].dependencies

\* C5: for an item whose assetInfo holds a truthy numeric fps and no
\* aspectRatio, publish() builds the Version data with
\* sg_uploaded_movie_frame_rate = float(fps) and without the two aspect
\* fields, and goes on to create the Version record with that data.
FpsOnly ==
    LET a == AssetInfo(properties)
    IN  /\ "fps" \in DOMAIN a
        /\ a["fps"].kind \in {"int", "float"}
        /\ a["fps"].num # 0
        /\ "aspectRatio" \notin DOMAIN a
C5_FpsWithoutAspect ==
    (/\ FpsOnly
     /\ "path" \in DOMAIN properties
     /\ Len(history) >= 1
     /\ history[1].op = "publish"
     /\ history[1].exc \notin {"re.search", "sg.create"}) =>
        /\ Len(records) >= 1
        /\ "sg_uploaded_movie_frame_rate" \in DOMAIN records[1].data
        /\ records[1].data["sg_uploaded_movie_frame_rate"]
             = Float(AssetInfo(properties)["fps"])
        /\ "sg_frames_aspect_ratio" \notin DOMAIN records[1].data
        /\ "sg_movie_aspect_ratio" \notin DOMAIN records[1].data

\* C6: in the Version data publish() builds, with both sourceIn and sourceOut
\* in assetInfo, sg_first_frame = sourceIn, sg_last_frame = sourceOut - 1 and
\* frame_count = sourceOut - sourceIn; with one of them or neither, none of
\* the three fields is set.
FrameFields == {"sg_first_frame", "sg_last_frame", "frame_count"}
C6_Frames ==
    \A i \in 1..Len(records) :
        LET a == AssetInfo(properties)
            d == records[i].data
        IN  IF "sourceIn" \in DOMAIN a /\ "sourceOut" \in DOMAIN a
            THEN /\ FrameFields \subseteq DOMAIN d
                 /\ d["sg_first_frame"] = a["sourceIn"]
                 /\ d["sg_last_frame"].kind = "int"
                 /\ d["sg_last_frame"].num = a["sourceOut"].num - 1
                 /\ d["frame_count"].kind = "int"
                 /\ d["frame_count"].num
                      = d["sg_last_frame"].num - d["sg_first_frame"].num + 1
                 /\ d["frame_count"].num
                      = a["sourceOut"].num - a["sourceIn"].num
            ELSE FrameFields \cap DOMAIN d = {}
C6_Witness ==
    /\ Len(records) = 1
    /\ "frame_count" \in DOMAIN records[1].data
    /\ records[1].data["frame_count"].num = 50
    /\ records[1].data["sg_last_frame"].num = 1050


\* Whether sequence `before` is the beginning of sequence `after`.
Extends(after, before) ==
    /\ Len(after) >= Len(before)
    /\ \A i \in 1..Len(before) : after[i] = before[i]

\* No publish() on the item has completed so far.
NeverPublished ==
    \A i \in 1..Len(history) :
        history[i].op = "publish" => history[i].exc # "none"

\* C7: when the transcode call or the job-2 submission fails after the Version
\* record was created, nothing is rolled back: the record persists and
\* item.properties["Version"] stays set, a job already submitted stays
\* submitted, no descriptor is stashed, and a following finalize() submits no
\* job 3, leaving a Version record without the upload job.
ExternalFailures == {"transcode", "create_local_backburner_job"}
C7_NoRollback ==
    [][/\ (Called("publish") /\ LastCall'.exc \in ExternalFailures) =>
             /\ Extends(records', records)
             /\ Len(records') = Len(records) + 1
             /\ "Version" \in DOMAIN properties'
             /\ properties'["Version"]
                  = [type |-> "Version", id |-> records'[Len(records')].id]
             /\ Extends(jobs', jobs)
             /\ LastCall'.exc = "transcode" => jobs' = jobs
             /\ LastCall'.exc = "create_local_backburner_job" =>
                    /\ Len(jobs') = Len(jobs) + 1
                    /\ jobs'[Len(jobs')].method_name = "transcode"
             /\ ("quicktime_job" \in DOMAIN properties')
                  = ("quicktime_job" \in DOMAIN properties)
             /\ "quicktime_job" \in DOMAIN properties =>
                    properties'["quicktime_job"] = properties["quicktime_job"]
       /\ (/\ Called("finalize")
           /\ Len(history) >= 1
           /\ LastCall.op = "publish"
           /\ LastCall.exc \in ExternalFailures
           /\ NeverPublished) =>
             /\ jobs' = jobs
             /\ LastCall'.ret = NoJob
             /\ UploadJobs' = {}
             /\ Len(records') >= 1
             /\ "Version" \in DOMAIN properties']_vars
C7_Witness ==
    /\ Len(history) = 2
    /\ history[1].op = "publish"
    /\ history[1].exc = "create_local_backburner_job"
    /\ history[2].op = "finalize" /\ history[2].ret = NoJob
    /\ Len(records) = 1
    /\ "Version" \in DOMAIN properties
    /\ TranscodeJobs # {}
    /\ UpdateJobs = {} /\ UploadJobs = {}
    /\ NoDescriptor

\* C8: a predecessor job reference ("backgroundJobId") on the item is passed
\* unchanged as the dependency of job 1, and of job 1 only; jobs 2 and 3
\* depend on job 1, so no job of the chain starts before the predecessor has
\* completed.  Without the reference, job 1 has no dependency.
ChainJobs == TranscodeJobs \cup UpdateJobs \cup UploadJobs
C8_Predecessor ==
    /\ \A j \in TranscodeJobs :
          jobs[j].dependencies
            = (IF "backgroundJobId" \in DOMAIN properties
               THEN properties["backgroundJobId"] ELSE NoJob)
    /\ \A j \in UpdateJobs \cup UploadJobs :
          jobs[j].dependencies \in TranscodeJobs
    /\ "backgroundJobId" \in DOMAIN properties =>
          \A j \in ChainJobs :
              jobs[j].status # "queued" =>
                  jobs[properties["backgroundJobId"]].status = "done"
C8_Witness ==
    /\ "backgroundJobId" \in DOMAIN properties
    /\ jobs[properties["backgroundJobId"]].method_name = "export"
    /\ \E j \in UploadJobs : jobs[j].status = "running"
    /\ \E j \in UpdateJobs : jobs[j].status = "done"

\* C9: after a successful publish() the stashed descriptor agrees with what
\* was submitted: its dependencies is job 1's id, its path the destination
\* the transcoder returned, its target_entities the one Version record this
\* publish() created, its files_to_delete the list the transcoder returned;
\* job 2, and the job 3 finalize() submits later, receive the same path,
\* targets and files_to_delete.
C9_DescriptorAgrees ==
    [][/\ (Called("publish") /\ LastCall'.exc = "none") =>
             LET job1 == jobs'[Len(jobs) + 1]
                 job2 == jobs'[Len(jobs) + 2]
                 desc == properties'["quicktime_job"]
             IN  /\ Len(jobs') = Len(jobs) + 2
                 /\ Len(records') = Len(records) + 1
                 /\ job1.method_name = "transcode"
                 /\ job2.method_name = "update_path_to_movie"
                 /\ desc.dependencies = job1.id
                 /\ job2.dependencies = job1.id
                 /\ desc.path = job1.args.resolved_dst_path
                 /\ desc.files_to_delete = job1.args.files_to_delete
                 /\ desc.target_entities
                      = <<[type |-> "Version",
                           id |-> records'[Len(records')].id]>>
                 /\ job2.args.path = desc.path
                 /\ job2.args.targets = desc.target_entities
                 /\ job2.args.files_to_delete = desc.files_to_delete
       /\ (Called("finalize") /\ LastCall'.ret # NoJob) =>
             LET job3 == jobs'[LastCall'.ret]
                 desc == properties["quicktime_job"]
             IN  /\ job3.method_name = "copy_from_temp_and_upload_to_shotgun"
                 /\ job3.args.path = desc.path
                 /\ job3.args.targets = desc.target_entities
                 /\ job3.args.files_to_delete = desc.files_to_delete]_vars
C9_Witness ==
    /\ ~NoDescriptor
    /\ properties["quicktime_job"].path # properties["quicktime_path"]
    /\ properties["quicktime_job"].files_to_delete # <<>>
    /\ \E j \in UploadJobs :
          jobs[j].args.path = properties["quicktime_job"].path

\* C10: when building the Version data fails on a type coercion (fps or
\* aspectRatio cannot be converted to float), publish() aborts before any
\* external effect: no record, no job, nothing written to the property bag,
\* and a following finalize() is a no-op.
CoercionFailures == {"float(fps)", "float(aspectRatio)"}
PublishKeys == {"Version", "quicktime_name", "quicktime_path", "quicktime_job"}
C10_CoercionAborts ==
    [][/\ (Called("publish") /\ LastCall'.exc \in CoercionFailures) =>
             /\ records' = records /\ records' = <<>>
             /\ jobs' = jobs /\ ChainJobs' = {}
             /\ properties' = properties
             /\ PublishKeys \cap DOMAIN properties' = {}
       /\ (/\ Called("finalize")
           /\ Len(history) >= 1
           /\ LastCall.op = "publish"
           /\ LastCall.exc \in CoercionFailures) =>
             /\ records' = records
             /\ jobs' = jobs
             /\ properties' = properties
             /\ LastCall'.ret = NoJob]_vars
C10_Witness ==
    /\ Len(history) = 2
    /\ history[1].op = "publish" /\ history[1].exc = "float(fps)"
    /\ history[2].op = "finalize" /\ history[2].ret = NoJob
    /\ records = <<>>
    /\ PublishKeys \cap DOMAIN properties = {}

====
